---------------------------- MODULE Spec2Model ----------------------------
(***************************************************************************)
(* State-machine model of the AudioVisualizer React component              *)
(* (src/src/components/AudioVisualizer.tsx).                               *)
(*                                                                         *)
(* React state (useState) and refs (useRef) are the variables.  A handler  *)
(* bound to a button runs with the values of the latest committed render;  *)
(* a closure that outlives its render (the draw callback handed to         *)
(* requestAnimationFrame, the continuation of an async start after its     *)
(* await, the 100 ms setTimeout callback) keeps the values of the render   *)
(* that created it.  Those captured values are carried in the records of   *)
(* pending, rafQueue/rafBatch and timer.                                   *)
(*                                                                         *)
(* Time is in milliseconds; real-valued levels are in thousandths.         *)
(***************************************************************************)
EXTENDS Integers, Sequences, FiniteSets, TLC

(* ------------------------------ bounds --------------------------------- *)
MaxStarts == 2      \* start requests in one behaviour of Spec
MaxRaceStarts == 3  \* start requests in one behaviour of RaceSpec
MaxChanges == 1     \* settings changes in one behaviour
MaxTicks == 2       \* clock advances in one behaviour
TickMs == 500       \* milliseconds per clock advance

(* ------------------------- program constants --------------------------- *)
FadeOutDuration == 1000   \* fadeOutDurationRef
RestartDelay == 100       \* setTimeout(..., 100) of the fullscreen effect
InitFftSize == 4096
InitSmoothing == 80       \* 0.8, in hundredths
InitGainBoost == 10       \* 1.0, in tenths
InitBarCount == 64

Null == 0                 \* a ref holding null (ids are positive)
NoTime == -1              \* fadeOutStartRef.current = null
NoMessage == "undefined"  \* an exception without a message property

Modes == {"idle", "mic", "tab"}
FftChoices == {2048, 4096}      \* of ui.fftOptions
SmoothingChoices == {50, 80}    \* of the range input 0..0.95 step 0.05
GainChoices == {10, 20}         \* of the range input 0.5..3 step 0.1
BarChoices == {64, 72}          \* of the range input 16..160 step 8
Messages == {NoMessage, "Permission denied"}
\* How the host settles a start: "rejects" is a rejected resume(),
\* getUserMedia() or getDisplayMedia(); the others are reached after the
\* stream was acquired.
Outcomes == {"ok", "rejects", "analyser_throws", "source_throws"}

VARIABLES
    mounted,        \* the component is mounted (canvasRef.current is set)
    surfaceOk,      \* canvas.getContext("2d") returns a context in this host
    fullScreen,     \* prop fullScreen
    mode, error, isRunning, isFadingOut,        \* useState
    fftSize, smoothing, gainBoost, barCount,    \* useState (settings)
    audioCtx,       \* audioCtxRef holds an AudioContext
    ctxCreated,     \* history: AudioContexts constructed so far
    analyserRef, sourceRef, streamRef, rafRef, fadeOutStart,   \* useRef
    analyserFft, analyserSmoothing,  \* properties of the analyser in analyserRef
    live,           \* ids of the acquired streams whose tracks are not stopped
    connected,      \* ids of the source nodes still connected to their analyser
    pending,        \* start calls suspended at their await
    rafQueue,       \* callbacks requested for the next animation frame
    rafBatch,       \* callbacks of the animation frame in progress, not yet run
    timer,          \* the pending restart timeout of the fullscreen effect
    now,            \* performance.now()
    nStarts,        \* start requests so far
    nChanges,       \* settings changes so far
    lastOp,         \* the handler or callback that ran last
    frame,          \* what the draw callback of this step computed
    fadeCompleted,  \* history: the fade-completion branch of draw has run
                    \* and no start was requested since
    pass            \* one pass of draw() over its buffers: what it was given
                    \* and, once drawn, what it put on the canvas

componentVars ==
    <<mounted, surfaceOk, fullScreen, mode, error, isRunning, isFadingOut,
      fftSize, smoothing, gainBoost, barCount, audioCtx, analyserRef,
      sourceRef, streamRef, rafRef, fadeOutStart, analyserFft,
      analyserSmoothing, live, connected, pending, rafQueue, rafBatch,
      timer, now, nStarts, nChanges, lastOp, frame, fadeCompleted,
      ctxCreated>>

vars == <<componentVars, pass>>

(* The state as one record, so that a handler is a function on states.     *)
S == [mounted |-> mounted, surfaceOk |-> surfaceOk, fullScreen |-> fullScreen,
      mode |-> mode, error |-> error, isRunning |-> isRunning,
      isFadingOut |-> isFadingOut, fftSize |-> fftSize, smoothing |-> smoothing,
      gainBoost |-> gainBoost, barCount |-> barCount, audioCtx |-> audioCtx,
      analyserRef |-> analyserRef, sourceRef |-> sourceRef,
      streamRef |-> streamRef, rafRef |-> rafRef, fadeOutStart |-> fadeOutStart,
      analyserFft |-> analyserFft, analyserSmoothing |-> analyserSmoothing,
      live |-> live, connected |-> connected, pending |-> pending,
      rafQueue |-> rafQueue, rafBatch |-> rafBatch, timer |-> timer,
      now |-> now, nStarts |-> nStarts, nChanges |-> nChanges,
      lastOp |-> lastOp, frame |-> frame, fadeCompleted |-> fadeCompleted,
      ctxCreated |-> ctxCreated]

(* Only the identity of an animation-frame handle matters: the handles of  *)
(* the pending requests are renumbered in request order, and a handle of   *)
(* no pending request becomes the next number.                             *)
Renumbered(s) ==
    LET all == s.rafBatch \o s.rafQueue
        Pos(id) == IF \E i \in 1..Len(all) : all[i].id = id
                   THEN CHOOSE i \in 1..Len(all) : all[i].id = id
                   ELSE Len(all) + 1
    IN  [s EXCEPT !.rafBatch = [i \in 1..Len(s.rafBatch) |->
                                  [s.rafBatch[i] EXCEPT !.id = i]],
                  !.rafQueue = [i \in 1..Len(s.rafQueue) |->
                                  [s.rafQueue[i] EXCEPT !.id = Len(s.rafBatch) + i]],
                  !.rafRef = IF s.rafRef = 0 THEN 0 ELSE Pos(s.rafRef)]

CommitState(s) ==
    /\ mounted' = s.mounted /\ surfaceOk' = s.surfaceOk
    /\ fullScreen' = s.fullScreen /\ mode' = s.mode /\ error' = s.error
    /\ isRunning' = s.isRunning /\ isFadingOut' = s.isFadingOut
    /\ fftSize' = s.fftSize /\ smoothing' = s.smoothing
    /\ gainBoost' = s.gainBoost /\ barCount' = s.barCount
    /\ audioCtx' = s.audioCtx /\ analyserRef' = s.analyserRef
    /\ sourceRef' = s.sourceRef /\ streamRef' = s.streamRef
    /\ rafRef' = s.rafRef /\ fadeOutStart' = s.fadeOutStart
    /\ analyserFft' = s.analyserFft
    /\ analyserSmoothing' = s.analyserSmoothing
    /\ live' = s.live /\ connected' = s.connected /\ pending' = s.pending
    /\ rafQueue' = s.rafQueue /\ rafBatch' = s.rafBatch /\ timer' = s.timer
    /\ now' = s.now /\ nStarts' = s.nStarts /\ nChanges' = s.nChanges
    /\ lastOp' = s.lastOp /\ frame' = s.frame
    /\ fadeCompleted' = s.fadeCompleted
    /\ ctxCreated' = s.ctxCreated

(* A step of the component leaves the buffers of the drawing pass alone.   *)
Commit(s) == CommitState(Renumbered(s)) /\ pass' = pass

NoFrame == [rendered |-> FALSE, multiplier |-> 1000, zeroData |-> FALSE,
            gainBoost |-> 0, barCount |-> 0, freqBins |-> 0, timeLen |-> 0]

(* No drawing pass is under study.                                         *)
NoPass == [drawn |-> FALSE, analyser |-> FALSE, freqBins |-> 0]

(* The component after its first render.                                   *)
Constructed ==
    /\ mounted = TRUE
    /\ surfaceOk \in BOOLEAN
    /\ fullScreen = FALSE
    /\ mode = "idle" /\ error = "" /\ isRunning = FALSE /\ isFadingOut = FALSE
    /\ fftSize = InitFftSize /\ smoothing = InitSmoothing
    /\ gainBoost = InitGainBoost /\ barCount = InitBarCount
    /\ audioCtx = FALSE /\ ctxCreated = 0
    /\ analyserRef = Null /\ sourceRef = Null /\ streamRef = Null
    /\ rafRef = Null /\ fadeOutStart = NoTime
    /\ analyserFft = 0 /\ analyserSmoothing = 0
    /\ live = {} /\ connected = {}
    /\ pending = <<>> /\ rafQueue = <<>> /\ rafBatch = <<>> /\ timer = <<>>
    /\ now = 0 /\ nStarts = 0 /\ nChanges = 0
    /\ lastOp = "init" /\ frame = NoFrame /\ fadeCompleted = FALSE

Init == Constructed /\ pass = NoPass

(* ------------------------------ helpers -------------------------------- *)
Min(a, b) == IF a <= b THEN a ELSE b

Without(q, id) == SelectSeq(q, LAMBDA c : c.id # id)

RemoveAt(q, i) == SubSeq(q, 1, i - 1) \o SubSeq(q, i + 1, Len(q))

Ids(q) == {q[i].id : i \in 1..Len(q)}

(* requestAnimationFrame returns a handle that no request still known      *)
(* carries; only the identity of a handle matters.                         *)
FreshRaf(s) ==
    LET used == Ids(s.rafQueue) \cup Ids(s.rafBatch) \cup {s.rafRef}
    IN  CHOOSE n \in 1..(Cardinality(used) + 1) : n \notin used

(* A state setter of a component that is no longer mounted has no effect.  *)
SetIsRunning(s, v) == IF s.mounted THEN [s EXCEPT !.isRunning = v] ELSE s
SetIsFadingOut(s, v) == IF s.mounted THEN [s EXCEPT !.isFadingOut = v] ELSE s
SetMode(s, v) == IF s.mounted THEN [s EXCEPT !.mode = v] ELSE s
SetError(s, v) == IF s.mounted THEN [s EXCEPT !.error = v] ELSE s

cancelAnimationFrame(s, id) ==
    [s EXCEPT !.rafQueue = Without(s.rafQueue, id),
              !.rafBatch = Without(s.rafBatch, id)]

(* ------------------------------ handlers ------------------------------- *)
(* A cleanup that drops the stream reference without stopping its tracks.  *)
cleanupLeavesTracks(s) ==
    LET s1 == SetIsFadingOut(SetIsRunning(s, FALSE), FALSE)
        s2 == IF s1.rafRef # Null THEN cancelAnimationFrame(s1, s1.rafRef)
                                  ELSE s1
    IN  SetMode([s2 EXCEPT !.fadeOutStart = NoTime, !.rafRef = Null,
                           !.connected = s2.connected \ {s2.sourceRef},
                           !.analyserRef = Null, !.sourceRef = Null,
                           !.analyserFft = 0, !.analyserSmoothing = 0,
                           !.streamRef = Null], "idle")

(* A cleanup that also closes and drops the AudioContext (the line left    *)
(* commented out at 93).                                                   *)
cleanupClosingContext(s) ==
    LET s1 == SetIsFadingOut(SetIsRunning(s, FALSE), FALSE)
        s2 == IF s1.rafRef # Null THEN cancelAnimationFrame(s1, s1.rafRef)
                                  ELSE s1
        s3 == [s2 EXCEPT !.fadeOutStart = NoTime, !.rafRef = Null,
                         !.connected = s2.connected \ {s2.sourceRef},
                         !.analyserRef = Null, !.sourceRef = Null,
                         !.analyserFft = 0, !.analyserSmoothing = 0,
                         !.live = s2.live \ {s2.streamRef},
                         !.streamRef = Null, !.audioCtx = FALSE]
    IN  SetMode(s3, "idle")

(* cleanup(), lines 71-96.                                                 *)
cleanup(s) ==
    LET s1 == SetIsFadingOut(SetIsRunning(s, FALSE), FALSE)
        s2 == [s1 EXCEPT !.fadeOutStart = NoTime]
        s3 == IF s2.rafRef # Null THEN cancelAnimationFrame(s2, s2.rafRef)
                                  ELSE s2
        s4 == [s3 EXCEPT !.rafRef = Null,
                         !.connected = s3.connected \ {s3.sourceRef},
                         !.analyserRef = Null, !.sourceRef = Null,
                         !.analyserFft = 0, !.analyserSmoothing = 0]
        s5 == IF s4.streamRef # Null
              THEN [s4 EXCEPT !.live = s4.live \ {s4.streamRef},
                              !.streamRef = Null]
              ELSE s4
    IN  SetMode(s5, "idle")

(* The part of ensureAudioContext() that runs before its await, lines      *)
(* 61-63.  Whether the context is suspended, and whether resume() then     *)
(* rejects, is the host's choice when the start settles.                   *)
ensureAudioContext(s) ==
    IF ~s.audioCtx
    THEN [s EXCEPT !.audioCtx = TRUE, !.ctxCreated = s.ctxCreated + 1]
    ELSE s

(* A loopDraw that starts its loop without looking at the 2D context.       *)
loopDrawUnchecked(s, c) ==
    IF ~s.mounted THEN s
    ELSE
      LET currentFftSize == IF s.analyserRef # Null /\ s.analyserFft # 0
                            THEN s.analyserFft ELSE c.fftSize
          id == FreshRaf(s)
          cb == [id |-> id, isFadingOut |-> c.isFadingOut,
                 gainBoost |-> c.gainBoost, barCount |-> c.barCount,
                 freqBins |-> currentFftSize \div 2, timeLen |-> currentFftSize]
      IN  [s EXCEPT !.rafQueue = Append(s.rafQueue, cb), !.rafRef = id]

(* loopDraw(), lines 199-222 and 330; c holds the values of the render     *)
(* that created this loopDraw.  Sizing the canvas changes nothing modelled.*)
loopDraw(s, c) ==
    IF ~s.mounted THEN s             \* canvasRef.current is null
    ELSE IF ~s.surfaceOk THEN s      \* getContext("2d") is null
    ELSE
      LET currentFftSize == IF s.analyserRef # Null /\ s.analyserFft # 0
                            THEN s.analyserFft ELSE c.fftSize
          freqBins == currentFftSize \div 2
          id == FreshRaf(s)
          cb == [id |-> id, isFadingOut |-> c.isFadingOut,
                 gainBoost |-> c.gainBoost, barCount |-> c.barCount,
                 freqBins |-> freqBins, timeLen |-> currentFftSize]
      IN  [s EXCEPT !.rafQueue = Append(s.rafQueue, cb), !.rafRef = id]

(* The values of the current render that a closure created now captures   *)
(* and later reads.                                                        *)
Captured(s) ==
    [isRunning |-> s.isRunning, isFadingOut |-> s.isFadingOut,
     fftSize |-> s.fftSize, smoothing |-> s.smoothing,
     gainBoost |-> s.gainBoost, barCount |-> s.barCount]

(* startMic() / startTabCapture() up to the first await, lines 98-103 and  *)
(* 132-137.                                                                *)
startRequest(s, kind) ==
    LET s1 == cleanup(SetError(s, ""))
        s2 == ensureAudioContext(s1)
        id == s.nStarts + 1
        p  == [id |-> id, kind |-> kind, c |-> Captured(s)]
    IN  [s2 EXCEPT !.pending = Append(s2.pending, p), !.nStarts = id,
                   !.fadeCompleted = FALSE]

DefaultMessage(kind) ==
    IF kind = "mic" THEN "Failed to start microphone."
    ELSE "Failed to start tab/screen capture. Try Chrome/Edge and ensure 'Share audio' is enabled."

(* The catch block, lines 126-129 and 163-169.                             *)
startFailed(s, kind, msg) ==
    cleanup(SetError(s, IF msg = NoMessage THEN DefaultMessage(kind) ELSE msg))

(* The continuation of a start after its awaits, lines 104-129 and         *)
(* 142-169, for the outcome the host gives it.                             *)
startResume(s, p, outcome, msg) ==
    LET s1 == [s EXCEPT !.streamRef = p.id, !.live = s.live \cup {p.id}]
        s2 == [s1 EXCEPT !.analyserRef = p.id, !.analyserFft = p.c.fftSize,
                         !.analyserSmoothing = p.c.smoothing]
        s3 == [s2 EXCEPT !.sourceRef = p.id,
                         !.connected = s2.connected \cup {p.id}]
        s4 == SetIsRunning(SetMode(s3, p.kind), TRUE)
    IN  CASE outcome = "rejects"         -> startFailed(s, p.kind, msg)
          [] outcome = "analyser_throws" -> startFailed(s1, p.kind, msg)
          [] outcome = "source_throws"   -> startFailed(s2, p.kind, msg)
          [] OTHER                       -> loopDraw(s4, p.c)

(* A stop without the fade: it tears everything down at once.              *)
stopImmediately(s) == cleanup(SetError(s, ""))

(* stop(), lines 172-197.                                                  *)
stop(s) ==
    LET s0 == SetError(s, "")
    IN  IF s.isRunning /\ ~s.isFadingOut
        THEN LET s1 == [s0 EXCEPT !.connected = s0.connected \ {s0.sourceRef}]
                 s2 == IF s1.streamRef # Null
                       THEN [s1 EXCEPT !.live = s1.live \ {s1.streamRef},
                                       !.streamRef = Null]
                       ELSE s1
                 s3 == [s2 EXCEPT !.sourceRef = Null, !.analyserRef = Null,
                                  !.analyserFft = 0, !.analyserSmoothing = 0]
                 s4 == SetIsFadingOut(SetIsRunning(s3, FALSE), TRUE)
             IN  [s4 EXCEPT !.fadeOutStart = s4.now]
        ELSE cleanup(s0)

(* draw, lines 224-328, as the callback cb of an animation frame.          *)
draw(s, cb) ==
    LET fading == cb.isFadingOut /\ s.fadeOutStart # NoTime
        elapsed == s.now - s.fadeOutStart
        progress == Min((elapsed * 1000) \div FadeOutDuration, 1000)
        fadeMultiplier == IF fading THEN 1000 - progress ELSE 1000
        out == [rendered |-> TRUE, multiplier |-> fadeMultiplier,
                zeroData |-> (s.analyserRef = Null),
                gainBoost |-> cb.gainBoost, barCount |-> cb.barCount,
                freqBins |-> cb.freqBins, timeLen |-> cb.timeLen]
        id == FreshRaf(s)
    IN  IF fading /\ progress >= 1000
        THEN [cleanup(s) EXCEPT !.frame = [out EXCEPT !.rendered = FALSE],
                                !.fadeCompleted = TRUE]
        ELSE [s EXCEPT !.frame = out,
                       !.rafQueue = Append(s.rafQueue, [cb EXCEPT !.id = id]),
                       !.rafRef = id]

(* A fullscreen effect that cancels the frame and never restarts the loop. *)
fullScreenEffectNoRestart(s) ==
    LET s0 == [s EXCEPT !.timer = <<>>]
    IN  IF (s0.isRunning \/ s0.isFadingOut) /\ s0.rafRef # Null
        THEN [cancelAnimationFrame(s0, s0.rafRef) EXCEPT !.rafRef = Null]
        ELSE s0

(* The effect on [fullScreen], lines 344-361, run by the render that       *)
(* follows the toggle; the cleanup of its previous run clears the timer.   *)
fullScreenEffect(s) ==
    LET s0 == [s EXCEPT !.timer = <<>>]
    IN  IF s0.isRunning \/ s0.isFadingOut
        THEN LET s1 == IF s0.rafRef # Null
                       THEN [cancelAnimationFrame(s0, s0.rafRef)
                               EXCEPT !.rafRef = Null]
                       ELSE s0
             IN  [s1 EXCEPT !.timer =
                     <<[deadline |-> s1.now + RestartDelay, c |-> Captured(s1)]>>]
        ELSE s0

(* The timeout callback, lines 353-357.                                    *)
restartTimeout(s, t) ==
    LET s0 == [s EXCEPT !.timer = <<>>]
    IN  IF s0.mounted /\ (t.c.isRunning \/ t.c.isFadingOut)
        THEN loopDraw(s0, t.c) ELSE s0

(* The effects on [fftSize] and [smoothing], lines 334-341.                *)
fftSizeEffect(s) ==
    IF s.analyserRef # Null THEN [s EXCEPT !.analyserFft = s.fftSize] ELSE s

smoothingEffect(s) ==
    IF s.analyserRef # Null THEN [s EXCEPT !.analyserSmoothing = s.smoothing]
    ELSE s

(* Unmount: the effect cleanups, lines 358 and 387-390.                    *)
unmount(s) ==
    [cleanup([s EXCEPT !.timer = <<>>]) EXCEPT !.mounted = FALSE]

(* ------------------------------ actions -------------------------------- *)
(* A step that is no draw callback: op ran, and no frame was computed.     *)
Step(s, op) == [s EXCEPT !.lastOp = op, !.frame = NoFrame]

(* User input reaches a handler only between animation frames; the start,  *)
(* stop and settings controls exist only outside fullscreen (line 392).    *)
Interactive == mounted /\ rafBatch = <<>>

StartMic(bound) ==
    /\ Interactive /\ ~fullScreen /\ nStarts < bound
    /\ Commit(Step(startRequest(S, "mic"), "start"))

StartTabCapture(bound) ==
    /\ Interactive /\ ~fullScreen /\ nStarts < bound
    /\ Commit(Step(startRequest(S, "tab"), "start"))

StartSettles ==
    /\ rafBatch = <<>>
    /\ \E i \in 1..Len(pending), outcome \in Outcomes, msg \in Messages :
         /\ outcome # "ok" \/ msg = NoMessage
         /\ Commit(Step(startResume([S EXCEPT !.pending = RemoveAt(pending, i)],
                                    pending[i], outcome, msg),
                         IF outcome = "ok" THEN "started" ELSE "startFailed"))

Stop ==
    /\ Interactive /\ ~fullScreen
    /\ Commit(Step(stop(S), "stop"))

(* One callback of an animation frame.  The callbacks requested before the *)
(* frame run in request order; those they request wait for the next frame. *)
AnimationFrame ==
    /\ rafBatch # <<>> \/ rafQueue # <<>>
    /\ LET batch == IF rafBatch # <<>> THEN rafBatch ELSE rafQueue
           queue == IF rafBatch # <<>> THEN rafQueue ELSE <<>>
       IN  Commit([draw([S EXCEPT !.rafBatch = Tail(batch), !.rafQueue = queue],
                        Head(batch))
                     EXCEPT !.lastOp = "draw"])

ToggleFullScreen ==
    /\ Interactive
    /\ Commit(Step(fullScreenEffect([S EXCEPT !.fullScreen = ~fullScreen]),
                    "fullScreen"))

RestartTimeout ==
    /\ rafBatch = <<>> /\ timer # <<>> /\ now >= timer[1].deadline
    /\ Commit(Step(restartTimeout(S, timer[1]), "timeout"))

SetFftSize ==
    /\ Interactive /\ ~fullScreen /\ nChanges < MaxChanges
    /\ \E v \in FftChoices \ {fftSize} :
         Commit(Step(fftSizeEffect([S EXCEPT !.fftSize = v,
                                             !.nChanges = nChanges + 1]),
                     "setting"))

SetSmoothing ==
    /\ Interactive /\ ~fullScreen /\ nChanges < MaxChanges
    /\ \E v \in SmoothingChoices \ {smoothing} :
         Commit(Step(smoothingEffect([S EXCEPT !.smoothing = v,
                                               !.nChanges = nChanges + 1]),
                     "setting"))

SetGainBoost ==
    /\ Interactive /\ ~fullScreen /\ nChanges < MaxChanges
    /\ \E v \in GainChoices \ {gainBoost} :
         Commit(Step([S EXCEPT !.gainBoost = v, !.nChanges = nChanges + 1],
                     "setting"))

SetBarCount ==
    /\ Interactive /\ ~fullScreen /\ nChanges < MaxChanges
    /\ \E v \in BarChoices \ {barCount} :
         Commit(Step([S EXCEPT !.barCount = v, !.nChanges = nChanges + 1],
                     "setting"))

(* handleResize, lines 365-381, only sizes the canvas.                     *)
Resize ==
    /\ Interactive
    /\ Commit(Step(S, "resize"))

Unmount ==
    /\ Interactive
    /\ Commit(Step(unmount(S), "unmount"))

Tick ==
    /\ rafBatch = <<>> /\ now + TickMs <= MaxTicks * TickMs
    /\ Commit(Step([S EXCEPT !.now = now + TickMs], "tick"))

Next ==
    \/ StartMic(MaxStarts) \/ StartTabCapture(MaxStarts) \/ StartSettles
    \/ Stop \/ AnimationFrame \/ ToggleFullScreen \/ RestartTimeout
    \/ SetFftSize \/ SetSmoothing \/ SetGainBoost \/ SetBarCount
    \/ Resize \/ Unmount \/ Tick

Spec == Init /\ [][Next]_vars

(* The same component with one more start request and the settings left    *)
(* alone: the interleavings of several starts in flight.                   *)
NextRace ==
    \/ StartMic(MaxRaceStarts) \/ StartTabCapture(MaxRaceStarts)
    \/ StartSettles \/ Stop \/ AnimationFrame \/ ToggleFullScreen
    \/ RestartTimeout \/ Resize \/ Unmount \/ Tick

RaceSpec == Init /\ [][NextRace]_vars

(* ------------------- the drawing pass, lines 239-315 -------------------- *)
(* What one call of draw() computes from its buffers.  A level is an exact *)
(* fraction [n, d] in lowest terms with d > 0; a time-domain sample, the   *)
(* gain boost and the fade multiplier are given in thousandths, tenths and *)
(* thousandths.                                                            *)
MaxPassBins == 256   \* largest frequencyBinCount given to a pass
MaxPassBars == 300   \* largest barCount given to a pass

Max(a, b) == IF a >= b THEN a ELSE b

Abs(a) == IF a < 0 THEN -a ELSE a

RECURSIVE Gcd(_, _)
Gcd(a, b) == IF b = 0 THEN a ELSE Gcd(b, a % b)

Q(n, d) == LET g == Gcd(Abs(n), d) IN [n |-> n \div g, d |-> d \div g]

Whole(n) == Q(n, 1)

QLeq(a, b) == a.n * b.d <= b.n * a.d

QAdd(a, b) == Q(a.n * b.d + b.n * a.d, a.d * b.d)

QSub(a, b) == Q(a.n * b.d - b.n * a.d, a.d * b.d)

QMul(a, b) == Q(a.n * b.n, a.d * b.d)

QMin(a, b) == IF QLeq(a, b) THEN a ELSE b

QMax(a, b) == IF QLeq(b, a) THEN a ELSE b

(* clamp(), lines 8-10, on integers and on fractions.                      *)
clamp(n, min, max) == Max(min, Min(max, n))

clampQ(n, min, max) == QMax(min, QMin(max, n))

Length(buf) == Cardinality(DOMAIN buf)

(* The sum of the loop at line 15 over buf[from..to], added up by halves.   *)
RECURSIVE SumSquares(_, _, _)
SumSquares(buf, from, to) ==
    IF from > to THEN 0
    ELSE IF from = to THEN buf[from] * buf[from]
    ELSE LET mid == (from + to) \div 2
         IN  SumSquares(buf, from, mid) + SumSquares(buf, mid + 1, to)

(* Math.sqrt of a mean square given in millionths, in thousandths, rounded *)
(* down; exact for the waveforms of HostSignals.                           *)
Sqrt(x) == CHOOSE r \in 0..1000 : r * r <= x /\ x < (r + 1) * (r + 1)

(* rmsTimeDomain(), lines 12-17.                                           *)
rmsTimeDomain(buf) ==
    Q(Sqrt(SumSquares(buf, 0, Length(buf) - 1) \div Length(buf)), 1000)

(* A levelToColor that runs from red to blue.                              *)
levelToColorReversed(level) ==
    [hue |-> QMul(Whole(240), level),
     saturation |-> QAdd(Whole(80), QMul(level, Whole(20))),
     lightness |-> QAdd(Whole(50), QMul(level, Whole(10)))]

(* levelToColor(), lines 19-26: the three numbers put into the hsl() text. *)
levelToColor(level) ==
    [hue |-> QMul(Whole(240), QSub(Whole(1), level)),
     saturation |-> QAdd(Whole(80), QMul(level, Whole(20))),
     lightness |-> QAdd(Whole(50), QMul(level, Whole(10)))]

(* What the analyser of the host hands out: the frequency magnitudes and   *)
(* the waveform of one moment.                                             *)
HostSignals ==
    {[freq |-> [kind |-> "flat", c |-> 0], time |-> [kind |-> "flat", a |-> 0]],
     [freq |-> [kind |-> "flat", c |-> 128], time |-> [kind |-> "flat", a |-> 500]],
     [freq |-> [kind |-> "flat", c |-> 255], time |-> [kind |-> "square", a |-> 1000]],
     [freq |-> [kind |-> "ramp", c |-> 0], time |-> [kind |-> "square", a |-> 250]],
     [freq |-> [kind |-> "last", c |-> 255], time |-> [kind |-> "flat", a |-> 1000]],
     [freq |-> [kind |-> "even", c |-> 255], time |-> [kind |-> "flat", a |-> 0]]}

getByteFrequencyData(sig, freqBins) ==
    [k \in 0..(freqBins - 1) |->
        CASE sig.kind = "flat" -> sig.c
          [] sig.kind = "ramp" -> k % 256
          [] sig.kind = "last" -> IF k = freqBins - 1 THEN sig.c ELSE 0
          [] OTHER -> IF k % 2 = 0 THEN sig.c ELSE 0]

getFloatTimeDomainData(sig, size) ==
    [k \in 0..(size - 1) |->
        IF sig.kind = "flat" \/ k % 2 = 0 THEN sig.a ELSE -sig.a]

RECURSIVE SumAt(_, _, _)
SumAt(data, reads, n) ==
    IF n = 0 THEN 0 ELSE SumAt(data, reads, n - 1) + data[reads[n]]

(* A bar whose centre is mapped onto 0..freqBins instead of 0..freqBins-1. *)
binOffByOne(i, bars, freqBins) ==
    (i * i * freqBins) \div ((bars - 1) * (bars - 1))

(* bin, lines 290-292: Math.floor((i / (bars - 1))^2 * (freqBins - 1)),    *)
(* in integer arithmetic.                                                  *)
binOf(i, bars, freqBins) ==
    (i * i * (freqBins - 1)) \div ((bars - 1) * (bars - 1))

(* win, line 295.                                                          *)
winOf(freqBins, bars) == Max(1, freqBins \div (bars * 3))

(* A neighborhood that leaves out the offsets falling outside the buffer.  *)
neighborhoodInside(bin, win, freqBins) ==
    LET lo == Max(bin - win, 0)
        hi == Min(bin + win, freqBins - 1)
    IN  [n \in 1..(hi - lo + 1) |-> lo + n - 1]

(* The indices k read by the loop over j, lines 298-299, in loop order.    *)
neighborhood(bin, win, freqBins) ==
    [n \in 1..(2 * win + 1) |-> clamp(bin + (n - 1 - win), 0, freqBins - 1)]

(* A mean scaled by 256 instead of 255.                                    *)
barValueOver256(sum, count) == Q(sum, count * 256)

(* v, line 305.                                                            *)
barValue(sum, count) == Q(sum, count * 255)

(* A level that is not clamped.                                            *)
barLevelUnclamped(v, gain, fade) ==
    QMul(QMul(v, gain), fade)

(* level, line 306.                                                        *)
barLevel(v, gain, fade) ==
    clampQ(QMul(QMul(v, gain), fade), Whole(0), Whole(1))

(* One iteration of the loop over the bars, lines 289-315.                 *)
bar(i, bars, freqData, gain, fade) ==
    LET freqBins == Length(freqData)
        b == binOf(i, bars, freqBins)
        w == winOf(freqBins, bars)
        reads == neighborhood(b, w, freqBins)
        sum == SumAt(freqData, reads, Len(reads))
        count == Len(reads)
        v == barValue(sum, count)
        level == barLevel(v, gain, fade)
    IN  [bin |-> b, win |-> w, reads |-> reads, v |-> v, level |-> level,
         color |-> levelToColor(level)]

(* Buffers that are filled from the host whether or not an analyser is     *)
(* attached.                                                               *)
fillBuffersFromHost(p) ==
    [freqData |-> getByteFrequencyData(p.host.freq, p.freqBins),
     timeData |-> getFloatTimeDomainData(p.host.time, 2 * p.freqBins)]

(* The buffers of lines 221-222 after lines 239-246.                       *)
fillBuffers(p) ==
    IF ~p.analyser
    THEN [freqData |-> [k \in 0..(p.freqBins - 1) |-> 0],
          timeData |-> [k \in 0..(2 * p.freqBins - 1) |-> 0]]
    ELSE [freqData |-> getByteFrequencyData(p.host.freq, p.freqBins),
          timeData |-> getFloatTimeDomainData(p.host.time, 2 * p.freqBins)]

(* A VU value that is not clamped.                                         *)
vuRmsUnclamped(timeData, gain, fade) ==
    QMul(QMul(rmsTimeDomain(timeData), gain), fade)

(* rms, lines 261-265.                                                     *)
vuRms(timeData, gain, fade) ==
    clampQ(QMul(QMul(rmsTimeDomain(timeData), gain), fade),
           Whole(0), Q(125, 100))

(* draw(), lines 239-315, on the buffers of one pass.                      *)
drawPass(p) ==
    LET buf == fillBuffers(p)
        gain == Q(p.gainBoost, 10)
        fade == Q(p.fadeMultiplier, 1000)
        rms == vuRms(buf.timeData, gain, fade)
        vuLevel == clampQ(rms, Whole(0), Whole(1))
        bars == clamp(p.barCount, 8, 256)
    IN  [p EXCEPT !.drawn = TRUE,
                  !.freqData = buf.freqData, !.timeData = buf.timeData,
                  !.rmsTimeDomain = rmsTimeDomain(buf.timeData),
                  !.rms = rms,
                  !.vuLevel = vuLevel, !.vuColor = levelToColor(vuLevel),
                  !.peakColor = levelToColor(QMin(QAdd(vuLevel, Q(2, 10)),
                                                  Whole(1))),
                  !.bars = [i \in 1..bars |->
                              bar(i - 1, bars, buf.freqData, gain,
                                  fade)]]

PassBins == {1, 3, 48, MaxPassBins}
PassBarCounts == {-8, 8, 9, 64, 256, MaxPassBars}
PassGains == {-10, 10, 30}
PassMultipliers == {0, 500, 1000}

PassInputs ==
    [drawn : {FALSE}, analyser : BOOLEAN,
     host : HostSignals,
     freqBins : PassBins, barCount : PassBarCounts,
     gainBoost : PassGains, fadeMultiplier : PassMultipliers,
     freqData : {<<>>}, timeData : {<<>>},
     rmsTimeDomain : {Whole(0)}, rms : {Whole(0)}, vuLevel : {Whole(0)},
     vuColor : {levelToColor(Whole(0))}, peakColor : {levelToColor(Whole(0))},
     bars : {<<>>}]

(* A pass over buffers the host has filled, in a mounted component.        *)
DrawInit == Constructed /\ surfaceOk /\ pass \in PassInputs

DrawPass ==
    /\ ~pass.drawn
    /\ pass' = drawPass(pass)
    /\ UNCHANGED componentVars

NextDraw == DrawPass

DrawSpec == DrawInit /\ [][NextDraw]_vars

(* ------------------------- derived notions ----------------------------- *)
PendingIds == {pending[i].id : i \in 1..Len(pending)}

(* The requests of a queue without their handles.                          *)
Requests(q) == [i \in 1..Len(q) |-> [q[i] EXCEPT !.id = 0]]

NoFrameScheduled == rafQueue = <<>> /\ rafBatch = <<>>

NoAudioAttached ==
    analyserRef = Null /\ sourceRef = Null /\ streamRef = Null

Idle == ~isRunning /\ ~isFadingOut /\ mode = "idle"

(* Milliseconds since the stop that started the fade.                      *)
Elapsed == now - fadeOutStart

(* ------------------------------ claims --------------------------------- *)

(* C1: in every reachable state at most one acquired stream has un-stopped *)
(* tracks, and that stream is the one streamRef references: no stream with *)
(* live tracks is left unreferenced.                                       *)
C1_OneLiveStream ==
    /\ Cardinality(live) <= 1
    /\ \A id \in live : id = streamRef

(* C2: a start requested while a session is Running releases that          *)
(* session before the acquisition begins: the tracks of the stream in      *)
(* streamRef are stopped, its source is disconnected, the stream, source   *)
(* and analyser references are cleared and the frame request in rafRef is  *)
(* canceled; and a stream whose tracks were stopped never has live tracks  *)
(* again, so none of them is live when the new session is established.     *)
C2_StartReleasesPrior ==
    [][ /\ (isRunning /\ nStarts' = nStarts + 1) =>
             /\ streamRef \notin live'
             /\ sourceRef \notin connected'
             /\ NoAudioAttached'
             /\ rafRef' = Null
             /\ Requests(rafQueue') = Requests(Without(rafQueue, rafRef))
             /\ Len(pending') = Len(pending) + 1
        /\ \A id \in 1..nStarts :
             (id \notin live /\ id \notin PendingIds) => id \notin live'
      ]_vars

(* C2 witness: a start was requested while Running with a live stream and  *)
(* a scheduled frame, and the session is released.                         *)
C2_Witness ==
    /\ lastOp = "start" /\ nStarts >= 2
    /\ pending[Len(pending)].c.isRunning
    /\ live = {} /\ NoAudioAttached /\ NoFrameScheduled

(* C3: a frame delivered to a FadingOut system once 1000 ms have elapsed   *)
(* since the stop runs the fade-completion branch: afterwards the system   *)
(* is Idle, no animation frame is scheduled and no audio resource is       *)
(* attached.                                                               *)
C3_FadeEndsIdle ==
    [][ ( /\ lastOp' = "draw" /\ mounted
          /\ isFadingOut /\ ~isRunning /\ fadeOutStart # NoTime
          /\ Elapsed >= FadeOutDuration )
        => (Idle' /\ NoFrameScheduled' /\ NoAudioAttached')
      ]_vars

(* C4: a frame drawn while FadingOut applies the multiplier                *)
(* 1 - min(elapsedMs/1000, 1), and a frame drawn while Running applies     *)
(* exactly 1.0 (multipliers in thousandths).                               *)
C4_FadeMultiplier ==
    [][ (lastOp' = "draw" /\ mounted) =>
          /\ (isFadingOut /\ ~isRunning /\ fadeOutStart # NoTime) =>
               frame'.multiplier =
                 1000 - Min((Elapsed * 1000) \div FadeOutDuration, 1000)
          /\ (isRunning /\ ~isFadingOut) => frame'.multiplier = 1000
      ]_vars

(* C5: after the frame in which the fade completes (progress >= 1.0), and  *)
(* until a new start is requested, no frame callback is scheduled.         *)
C5_NoFrameAfterFade ==
    (mounted /\ fadeCompleted) => NoFrameScheduled

(* The start that settled in this step, if it settled successfully.        *)
SettledOk(p) ==
    /\ lastOp' = "started"
    /\ \E i \in 1..Len(pending) : pending[i] = p /\ pending' = RemoveAt(pending, i)

(* C6: a start requested while FadingOut cancels the fade at once (start   *)
(* time and fading flag cleared, the frame in rafRef canceled); when its   *)
(* acquisition succeeds the system is Running with the newly acquired      *)
(* stream and analyser and no fade in progress; and no frame of a session  *)
(* that is Running and not fading is attenuated or tears it down.          *)
C6_StartCancelsFade ==
    [][ /\ (mounted /\ isFadingOut /\ nStarts' = nStarts + 1) =>
             /\ ~isFadingOut' /\ fadeOutStart' = NoTime /\ rafRef' = Null
             /\ Requests(rafQueue') = Requests(Without(rafQueue, rafRef))
        /\ \A i \in 1..Len(pending) :
             (mounted /\ pending[i].c.isFadingOut /\ SettledOk(pending[i])) =>
                /\ isRunning' /\ ~isFadingOut' /\ fadeOutStart' = NoTime
                /\ streamRef' = pending[i].id /\ streamRef' \in live'
                /\ analyserRef' = pending[i].id
        /\ (mounted /\ lastOp' = "draw" /\ isRunning /\ ~isFadingOut) =>
             (frame'.multiplier = 1000 /\ isRunning' /\ streamRef' = streamRef)
      ]_vars

(* C7: stop requested while Running and not fading stops the tracks of the *)
(* session's stream, clears the stream, source and analyser references,    *)
(* leaves the scheduled animation frames as they are, clears isRunning and *)
(* starts the fade with its start time set to the current time.            *)
C7_StopStartsFade ==
    [][ (lastOp' = "stop" /\ isRunning /\ ~isFadingOut) =>
          /\ streamRef \notin live' /\ sourceRef \notin connected'
          /\ NoAudioAttached'
          /\ rafQueue' = rafQueue /\ rafBatch' = rafBatch /\ rafRef' = rafRef
          /\ ~isRunning' /\ isFadingOut'
          /\ fadeOutStart' = now /\ now' = now
      ]_vars

(* C7 witness: stop has just started a fade of a session whose frame loop  *)
(* is still scheduled.                                                     *)
C7_Witness ==
    /\ lastOp = "stop" /\ isFadingOut /\ ~isRunning /\ fadeOutStart = now
    /\ rafQueue # <<>> /\ rafRef # Null /\ live = {} /\ NoAudioAttached

(* While the fade is in progress and younger than its duration.            *)
FadeInProgress ==
    mounted /\ isFadingOut /\ fadeOutStart # NoTime /\ Elapsed < FadeOutDuration

(* The fade goes on and the render loop is not torn down: a frame stays    *)
(* scheduled, or the restart timer of the fullscreen effect is pending.    *)
FadeGoesOn ==
    /\ isFadingOut' /\ fadeOutStart' = fadeOutStart
    /\ (rafQueue # <<>> \/ timer # <<>>) => (rafQueue' # <<>> \/ timer' # <<>>)

(* C8 as claimed: once FadingOut, neither a repeated stop, nor a settings  *)
(* change, nor a fullscreen toggle, nor a resize ends the fade or tears    *)
(* down the render loop before 1000 ms have elapsed.                       *)
C8_FadeNotCancelable ==
    [][ (FadeInProgress /\ lastOp' \in {"stop", "setting", "fullScreen", "resize"})
        => FadeGoesOn ]_vars

(* C8 as amended: once FadingOut, a settings change, a fullscreen toggle   *)
(* or a resize does not end the fade or tear down the render loop before   *)
(* 1000 ms have elapsed; a repeated stop request does (it runs cleanup).   *)
C8_FadeSurvivesSettings ==
    [][ /\ (FadeInProgress /\ lastOp' \in {"setting", "fullScreen", "resize"})
             => FadeGoesOn
        /\ (FadeInProgress /\ lastOp' = "stop")
             => (Idle' /\ fadeOutStart' = NoTime /\ rafRef' = Null)
      ]_vars

(* C8 witness: a fullscreen toggle during a fade has canceled the frame    *)
(* and left the restart timer pending, the fade still in progress.         *)
C8_Witness ==
    /\ lastOp = "fullScreen" /\ FadeInProgress /\ ~isRunning
    /\ rafQueue = <<>> /\ timer # <<>> /\ nChanges = MaxChanges

(* C9: when a step of a start fails, the resulting state is Idle: the      *)
(* stream that start acquired has its tracks stopped, no analyser or       *)
(* source is attached, no animation frame is scheduled, and a non-empty    *)
(* error message is set.                                                   *)
C9_FailedStartIsIdle ==
    [][ (mounted /\ lastOp' = "startFailed") =>
          /\ Idle' /\ NoAudioAttached' /\ NoFrameScheduled'
          /\ \A i \in 1..Len(pending) :
               pending' = RemoveAt(pending, i) => pending[i].id \notin live'
          /\ error' # ""
      ]_vars

(* C10: when a start has acquired its stream but the drawing surface or    *)
(* its 2D context is unavailable as the render loop is started, the system *)
(* ends Idle with the stream's tracks stopped and the analyser detached.   *)
C10_NoSurfaceIsIdle ==
    [][ (mounted /\ ~surfaceOk /\ lastOp' = "started") =>
          /\ ~isRunning' /\ mode' = "idle"
          /\ streamRef' \notin live' /\ analyserRef' = Null
      ]_vars

(* C11: when loopDraw is invoked (by a start that settled successfully or  *)
(* by the restart timeout) and the canvas or its 2D context is not         *)
(* available, no animation frame is scheduled and no error message is set. *)
C11_NoSurfaceNoFrame ==
    [][ (lastOp' \in {"started", "timeout"} /\ ~(mounted /\ surfaceOk))
        => /\ rafQueue' = rafQueue /\ rafBatch' = rafBatch
           /\ rafRef' = rafRef
           /\ error' = error
      ]_vars

C11_Witness ==
    /\ lastOp = "started" /\ mounted /\ ~surfaceOk
    /\ isRunning /\ NoFrameScheduled /\ error = ""

(* C12: the first frame rendered after a settings change made while        *)
(* Running uses the new bar count and gain boost, and the open analyser    *)
(* already has the new FFT size and smoothing.                             *)
C12_NextFrameUsesNewSettings ==
    [][ (lastOp = "setting" /\ isRunning /\ lastOp' = "draw" /\ frame'.rendered)
        => /\ frame'.gainBoost = gainBoost
           /\ frame'.barCount = barCount
           /\ analyserRef # Null
           /\ analyserFft = fftSize /\ analyserSmoothing = smoothing
      ]_vars

(* The number of bars of a pass: barCount clamped to [8, 256].             *)
BarsOf(p) == IF p.barCount < 8 THEN 8 ELSE IF p.barCount > 256 THEN 256
             ELSE p.barCount

(* C13: whatever the barCount (also outside [8, 256]), the frequency       *)
(* magnitudes, the gain boost and the fade multiplier, a pass draws        *)
(* exactly K = clamp(barCount, 8, 256) bars, each with a level in [0, 1].  *)
C13_BarCountAndLevelRange ==
    pass.drawn =>
        /\ Len(pass.bars) = BarsOf(pass)
        /\ \A i \in 1..Len(pass.bars) :
              /\ QLeq(Whole(0), pass.bars[i].level)
              /\ QLeq(pass.bars[i].level, Whole(1))

(* C13 witness: a barCount above 256 was given, 256 bars were drawn, and   *)
(* with a gain of 3.0 one level was cut to 1 while another is below 1.     *)
C13_Witness ==
    /\ pass.drawn /\ pass.barCount > 256 /\ Len(pass.bars) = 256
    /\ pass.gainBoost = 30 /\ pass.fadeMultiplier = 1000
    /\ \E i, j \in 1..Len(pass.bars) :
          /\ pass.bars[i].level = Whole(1) /\ pass.bars[i].v # Whole(1)
          /\ pass.bars[j].level # Whole(1)

(* C14: a pass drawn while no analyser is attached works on buffers that   *)
(* are all zero, so the VU level and the level of every bar are 0,         *)
(* whatever the bar count, the gain boost and the host's signal.           *)
C14_NoAnalyserDrawsZero ==
    (pass.drawn /\ ~pass.analyser) =>
        /\ \A k \in DOMAIN pass.freqData : pass.freqData[k] = 0
        /\ \A k \in DOMAIN pass.timeData : pass.timeData[k] = 0
        /\ pass.vuLevel = Whole(0)
        /\ \A i \in 1..Len(pass.bars) : pass.bars[i].level = Whole(0)

(* C14 witness: such a pass with a host at full signal, a gain of 3.0 and  *)
(* no fade has drawn its bars.                                             *)
C14_Witness ==
    /\ pass.drawn /\ ~pass.analyser
    /\ pass.host.freq = [kind |-> "flat", c |-> 255]
    /\ pass.host.time.a = 1000
    /\ pass.gainBoost = 30 /\ pass.fadeMultiplier = 1000
    /\ Len(pass.bars) = 64 /\ Length(pass.freqData) = MaxPassBins
    /\ pass.vuLevel = Whole(0)

(* C15: when every frequency magnitude of the buffer has the same value c, *)
(* the level of each bar before gain and fade is exactly c/255 (1 when c   *)
(* is 255), whatever the bin count and the bar count.                      *)
C15_UniformSpectrum ==
    (pass.drawn /\ \A k \in DOMAIN pass.freqData :
                      pass.freqData[k] = pass.freqData[0]) =>
        \A i \in 1..Len(pass.bars) : pass.bars[i].v = Q(pass.freqData[0], 255)

(* C15 witness: a uniform spectrum of 128 over 48 bins drawn as 8 bars,    *)
(* each averaged over a window of 5 bins.                                  *)
C15_Witness ==
    /\ pass.drawn /\ pass.analyser
    /\ pass.host.freq = [kind |-> "flat", c |-> 128]
    /\ Length(pass.freqData) = 48 /\ Len(pass.bars) = 8
    /\ Len(pass.bars[1].reads) = 5
    /\ pass.bars[8].v = Q(128, 255)

(* The levels a drawn pass has turned into colours, with their hues.       *)
Shown(p) ==
    [i \in 1..(Len(p.bars) + 1) |->
        IF i <= Len(p.bars)
        THEN [level |-> p.bars[i].level, hue |-> p.bars[i].color.hue]
        ELSE [level |-> p.vuLevel, hue |-> p.vuColor.hue]]

(* C16: the hue of a level L is 240 * (1 - L): 240 at level 0, 0 at level  *)
(* 1, and never larger for a larger level; the peak indicator is coloured  *)
(* for min(L + 0.2, 1), so its hue is at most the hue of the VU fill.      *)
C16_HueFallsWithLevel ==
    pass.drawn =>
        LET shown == Shown(pass)
        IN  /\ \A i \in 1..Len(shown) :
                 /\ shown[i].level = Whole(0) => shown[i].hue = Whole(240)
                 /\ shown[i].level = Whole(1) => shown[i].hue = Whole(0)
                 /\ QAdd(shown[i].hue, QMul(Whole(240), shown[i].level))
                      = Whole(240)
                 /\ \A j \in {1, i - 1, Len(shown)} \ {0} :
                       QLeq(shown[i].level, shown[j].level)
                          => QLeq(shown[j].hue, shown[i].hue)
            /\ QLeq(pass.peakColor.hue, pass.vuColor.hue)
            /\ QAdd(pass.peakColor.hue,
                    QMul(Whole(240), QMin(QAdd(pass.vuLevel, Q(1, 5)), Whole(1))))
                 = Whole(240)

(* C16 witness: a VU fill at level 1/2 (hue 120) with its peak indicator   *)
(* at hue 72, a bar at level 0 (hue 240) and a bar at level 1/3 (hue 160). *)
C16_Witness ==
    /\ pass.drawn /\ pass.analyser
    /\ pass.vuLevel = Q(1, 2) /\ pass.vuColor.hue = Whole(120)
    /\ pass.peakColor.hue = Whole(72)
    /\ pass.bars[1].level = Whole(0) /\ pass.bars[1].color.hue = Whole(240)
    /\ pass.bars[Len(pass.bars)].level = Q(1, 3)
    /\ pass.bars[Len(pass.bars)].color.hue = Whole(160)

(* C17: the AudioContext is kept between sessions: at most one is ever     *)
(* constructed, and no step (a stop, a cleanup, a new start, the unmount)  *)
(* closes or drops the one that exists.                                    *)
C17_OneAudioContext ==
    [][ /\ ctxCreated' <= 1
        /\ audioCtx => (audioCtx' /\ ctxCreated' = ctxCreated)
      ]_vars

(* C17 witness: the third start request has settled into a running         *)
(* session and there is still the one context.                             *)
C17_Witness ==
    /\ lastOp = "started" /\ nStarts = 3 /\ pending = <<>>
    /\ isRunning /\ audioCtx /\ ctxCreated = 1

(* C18: in every frame rendered with an analyser attached, the frequency   *)
(* buffer has fftSize/2 elements and the time-domain buffer fftSize        *)
(* elements, for the analyser's current fftSize, also after the FFT size   *)
(* was changed on an open session.                                         *)
C18_BuffersMatchAnalyser ==
    [][ (lastOp' = "draw" /\ frame'.rendered /\ analyserRef' # Null)
        => /\ 2 * frame'.freqBins = analyserFft'
           /\ frame'.timeLen = analyserFft'
      ]_vars

(* b is the floor of num/den.                                              *)
IsFloor(b, num, den) == b * den <= num /\ num < (b + 1) * den

(* w is max(1, floor(B / (3K))).                                           *)
IsHalfWindow(w, B, K) == IF B < 6 * K THEN w = 1 ELSE IsFloor(w, B, 3 * K)

(* How many offsets j in -w..w fall, after clamping to 0..B-1, on bin k.   *)
Offsets(k, c, w, B) ==
    Cardinality({j \in (-w)..w :
                    (IF c + j < 0 THEN 0 ELSE IF c + j > B - 1 THEN B - 1
                     ELSE c + j) = k})

(* The sum of F over the window of half-width w around c, each bin taken   *)
(* as often as an offset falls on it.                                      *)
RECURSIVE WindowSum(_, _, _, _, _)
WindowSum(F, k, c, w, B) ==
    IF k > c + w \/ k > B - 1 THEN 0
    ELSE F[k] * Offsets(k, c, w, B) + WindowSum(F, k + 1, c, w, B)

(* The reference level: the mean of the window, over 255, times gain and   *)
(* fade, cut to [0, 1].                                                    *)
ReferenceLevel(F, c, w, B, gain, fade) ==
    LET sum == WindowSum(F, IF c - w < 0 THEN 0 ELSE c - w, c, w, B)
        num == sum * gain * fade
        den == (2 * w + 1) * 255 * 10 * 1000
    IN  IF num <= 0 THEN Whole(0) ELSE IF num >= den THEN Whole(1)
        ELSE Q(num, den)

(* C19: the level drawn for bar i is the reference level: centre bin       *)
(* floor((i/(K-1))^2 * (B-1)), half window max(1, floor(B/(3K))), the mean *)
(* over exactly 2*halfWindow+1 offsets of F at the clamped index, divided  *)
(* by 255, times gain boost and fade multiplier, clamped to [0, 1].        *)
C19_BarLevelIsReference ==
    pass.drawn =>
        LET K == BarsOf(pass)
            B == Length(pass.freqData)
        IN  \A i \in 0..(K - 1) :
               LET b == pass.bars[i + 1]
               IN  /\ IsFloor(b.bin, i * i * (B - 1), (K - 1) * (K - 1))
                   /\ IsHalfWindow(b.win, B, K)
                   /\ Len(b.reads) = 2 * b.win + 1
                   /\ b.level = ReferenceLevel(pass.freqData, b.bin, b.win, B,
                                               pass.gainBoost,
                                               pass.fadeMultiplier)

(* C19 witness: a ramp over 48 bins drawn as 8 bars with gain 3.0 at half  *)
(* fade; the windows of the first and the last bar are cut at the edges.   *)
C19_Witness ==
    /\ pass.drawn /\ pass.analyser /\ pass.host.freq.kind = "ramp"
    /\ Length(pass.freqData) = 48 /\ Len(pass.bars) = 8
    /\ pass.gainBoost = 30 /\ pass.fadeMultiplier = 500
    /\ pass.bars[1].reads = <<0, 0, 0, 1, 2>>
    /\ pass.bars[1].level = Q(3, 850)
    /\ pass.bars[8].reads = <<45, 46, 47, 47, 47>>

(* C20: every index read from the frequency buffer lies in 0..B-1; the     *)
(* centre bin is 0 for the first bar, B-1 for the last bar and never       *)
(* decreases from one bar to the next.                                     *)
C20_BinsInRangeAndOrdered ==
    pass.drawn =>
        LET B == Length(pass.freqData)
            K == Len(pass.bars)
        IN  /\ \A i \in 1..K : \A n \in 1..Len(pass.bars[i].reads) :
                  pass.bars[i].reads[n] \in 0..(B - 1)
            /\ pass.bars[1].bin = 0
            /\ pass.bars[K].bin = B - 1
            /\ \A i \in 1..(K - 1) : pass.bars[i].bin <= pass.bars[i + 1].bin

(* C20 witness: 64 bars over 48 bins: the first two bars share bin 0, the  *)
(* last bar is centred on bin 47 and its window is cut at the upper edge.  *)
C20_Witness ==
    /\ pass.drawn /\ Length(pass.freqData) = 48 /\ Len(pass.bars) = 64
    /\ pass.bars[1].bin = 0 /\ pass.bars[2].bin = 0
    /\ pass.bars[1].reads = <<0, 0, 1>>
    /\ pass.bars[64].bin = 47 /\ pass.bars[64].reads = <<46, 47, 47>>

(* C21: in every pass the RMS of the (non-empty) sample buffer is not      *)
(* negative and is 0 for an all-zero buffer; the VU value is the RMS times *)
(* the gain boost (and the fade multiplier) cut to [0, 1.25], and the      *)
(* displayed VU level is that value cut to [0, 1].                         *)
C21_VuClamped ==
    pass.drawn =>
        LET raw == pass.rmsTimeDomain
            num == raw.n * pass.gainBoost * pass.fadeMultiplier
            den == raw.d * 10 * 1000
        IN  /\ Length(pass.timeData) > 0
            /\ raw.n >= 0
            /\ (\A k \in DOMAIN pass.timeData : pass.timeData[k] = 0)
                   => raw = Whole(0)
            /\ pass.rms = IF num <= 0 THEN Whole(0)
                          ELSE IF 4 * num >= 5 * den THEN Q(5, 4)
                          ELSE Q(num, den)
            /\ pass.vuLevel = IF pass.rms.n >= pass.rms.d THEN Whole(1)
                              ELSE pass.rms

(* C21 witness: a full-scale waveform at a gain of 3.0: the VU value is    *)
(* held at 1.25 and the displayed level at 1.                              *)
C21_Witness ==
    /\ pass.drawn /\ pass.analyser
    /\ pass.rmsTimeDomain = Whole(1) /\ pass.gainBoost = 30
    /\ pass.fadeMultiplier = 1000
    /\ pass.rms = Q(5, 4) /\ pass.vuLevel = Whole(1)

(* C22: at most one render-loop chain is live: at most one animation-frame *)
(* callback is requested and not yet run, and its handle is the one in     *)
(* rafRef, so that the single cancelAnimationFrame of cleanup stops all    *)
(* rendering.                                                              *)
C22_OneRenderLoop ==
    /\ Len(rafQueue) + Len(rafBatch) <= 1
    /\ \A id \in Ids(rafQueue) \cup Ids(rafBatch) : id = rafRef

(* C23: a start that was superseded while its acquisition was pending (by  *)
(* a later start, or by the unmount) takes no effect when the acquisition  *)
(* completes: its stream and analyser are not installed, isRunning and     *)
(* mode are not set, no render loop is started; and after the unmount no   *)
(* stream with live tracks is attached.                                    *)
C23_SupersededStartIgnored ==
    [][ /\ \A i \in 1..Len(pending) :
             (SettledOk(pending[i]) /\ (pending[i].id < nStarts \/ ~mounted))
             => /\ streamRef' # pending[i].id /\ analyserRef' # pending[i].id
                /\ pending[i].id \notin live'
                /\ isRunning' = isRunning /\ mode' = mode
                /\ Len(rafQueue') = Len(rafQueue)
        /\ ~mounted' => streamRef' \notin live'
      ]_vars

(* C24: the lifecycle states exclude each other and agree with the         *)
(* attached resources: isRunning and isFadingOut are never both true;      *)
(* isRunning implies an attached analyser, a referenced stream with live   *)
(* tracks and mode mic or tab; isFadingOut implies no analyser, no stream  *)
(* and a fade start time.                                                  *)
C24_LifecycleConsistent ==
    mounted =>
        /\ ~(isRunning /\ isFadingOut)
        /\ isRunning => /\ analyserRef # Null
                        /\ streamRef # Null /\ streamRef \in live
                        /\ mode \in {"mic", "tab"}
        /\ isFadingOut => /\ analyserRef = Null /\ streamRef = Null
                          /\ fadeOutStart # NoTime

=============================================================================
